---- MODULE Spec2Model ----
(***************************************************************************)
(* Chunk-and-reduce summarization pipeline of youtube-summarizer.          *)
(*                                                                         *)
(* Two programs share the helper functions: the command-line script        *)
(* (main.py, function main) and the Streamlit web app (app.py, the         *)
(* "Generate Summary" block).  A text is a sequence of characters; the     *)
(* absent value None is the one-element sequence <<"<None>">>, which is    *)
(* no text (its element is not a character).                               *)
(***************************************************************************)
EXTENDS Integers, Sequences, FiniteSets, TLC

\* ------------------------------------------------------------------ bounds
\* Longest text handed to chunk_text in SpecChunk.
MaxLen == 5
\* Largest chunk_size / overlap handed to chunk_text in SpecChunk.
MaxSize == 3

\* ------------------------------------------------------------ text helpers
None == <<"<None>">>

Whitespace == {" "}

Alphabet == {"a", "b", " "}

Min(a, b) == IF a <= b THEN a ELSE b

\* Python's text[start:end] for 0 <= start, 0 <= end (clamped to the text).
Slice(text, start, end) ==
    IF start >= Min(end, Len(text)) THEN <<>>
    ELSE SubSeq(text, start + 1, Min(end, Len(text)))

\* Python's text[start:].
SliceFrom(text, start) == Slice(text, start, Len(text))

RECURSIVE lstrip(_)
lstrip(text) ==
    IF text # <<>> /\ Head(text) \in Whitespace THEN lstrip(Tail(text)) ELSE text

RECURSIVE rstrip(_)
rstrip(text) ==
    IF text # <<>> /\ text[Len(text)] \in Whitespace
    THEN rstrip(SubSeq(text, 1, Len(text) - 1))
    ELSE text

\* str.strip()
strip(text) == rstrip(lstrip(text))

\* Python truthiness of an optional text: None and "" are falsy.
Truthy(x) == x # None /\ x # <<>>

\* ------------------------------------------------------------- chunk_text
\* The while loop of chunk_text, from the loop test on: the chunks appended so
\* far, the offset each was cut at, and the value of start when the loop ends.
\* Mutant of next_start: the stride forgets the overlap.
next_start_no_overlap(start, chunk_size, overlap) == start + chunk_size

\* start += chunk_size - overlap
next_start(start, chunk_size, overlap) == start + (chunk_size - overlap)

\* if start + overlap >= len(text): break
loop_break(text, start, overlap) == start + overlap >= Len(text)

RECURSIVE chunk_loop(_, _, _, _, _, _)
chunk_loop(text, chunk_size, overlap, start, chunks, starts) ==
    IF start < Len(text)
    THEN LET end     == start + chunk_size
             chunks2 == Append(chunks, Slice(text, start, end))
             starts2 == Append(starts, start)
             start2  == next_start(start, chunk_size, overlap)
         IN  IF loop_break(text, start2, overlap)
             THEN [chunks |-> chunks2, starts |-> starts2, start |-> start2]
             ELSE chunk_loop(text, chunk_size, overlap, start2, chunks2, starts2)
    ELSE [chunks |-> chunks, starts |-> starts, start |-> start]

\* Mutant of chunk_tail: text[start:] is appended without the test.
chunk_tail_untested(text, loop) ==
    [chunks |-> Append(loop.chunks, SliceFrom(text, loop.start)),
     starts |-> Append(loop.starts, loop.start)]

\* The tail appended after the loop: text[start:] when start < len(text).
chunk_tail(text, loop) ==
    IF loop.start < Len(text)
    THEN [chunks |-> Append(loop.chunks, SliceFrom(text, loop.start)),
          starts |-> Append(loop.starts, loop.start)]
    ELSE [chunks |-> loop.chunks, starts |-> loop.starts]

\* Mutant of chunk_guard: the test forgets strip().
chunk_guard_no_strip(text) == text = None \/ text = <<>>

\* The guard of chunk_text: text is None or blank.
chunk_guard(text) == text = None \/ strip(text) = <<>>

\* chunk_text with the offset of every chunk beside the chunks.
chunk_text_at(text, chunk_size, overlap) ==
    IF chunk_guard(text)
    THEN [chunks |-> <<>>, starts |-> <<>>]
    ELSE chunk_tail(text, chunk_loop(text, chunk_size, overlap, 0, <<>>, <<>>))

chunk_text(text, chunk_size, overlap) ==
    chunk_text_at(text, chunk_size, overlap).chunks

\* ------------------------------------------------------------------ state
VARIABLES
    ct_text,      \* chunk_text: argument text
    ct_size,      \* chunk_text: argument chunk_size
    ct_overlap,   \* chunk_text: argument overlap
    ct_pc,        \* "call" before the call, "returned" after it
    ct_chunks     \* chunk_text: the returned list

cvars == <<ct_text, ct_size, ct_overlap, ct_pc, ct_chunks>>

VARIABLES
    program,          \* "main" (main.py, command line) or "app" (app.py, web app)
    api_key,          \* whether GEMINI_API_KEY is configured
    pc,               \* position of the orchestrator
    runs,             \* runs started so far (main: one per process; app: Generate clicks)
    url,              \* YOUTUBE_URL of the current run
    transcript,       \* fetch_transcript's text (by reference), or None
    video_id,         \* fetch_transcript's video id, or NoId
    text_chunks,      \* chunk_text's list; each chunk is held as its index in ChunkPool
    idx,              \* the for loop's position in text_chunks (1-based)
    chunk_summaries,  \* the orchestrator's list
    attempt,          \* summarize_chunk: attempt
    model_arg,        \* summarize_chunk: its second argument (model / model_name)
    call,             \* summarize_chunk: the running outer call's service calls and waits
    session,          \* app: st.session_state, a function from its keys
    fetch_cache,      \* app: st.cache_data of fetch_transcript
    chunk_cache,      \* app: st.cache_data of summarize_chunk
    reduce_cache,     \* app: st.cache_data of create_final_summary
    results,          \* history: what summarize_chunk returned for each chunk of the run
    log,              \* history: the run's attempts (service reached or not) and sleeps, in order
    reducer,          \* history: the run's create_final_summary call, or NotCalled
    reports,          \* history: the fatal conditions reported to the user in the run
    delivered,        \* history: the final summary handed to the user in the run, or None
    source_calls,     \* history: calls of the transcript source in the run
    stages,           \* history: the stages the run has entered, in order
    written           \* history: for each key of session, the run that stored it

pvars == <<program, api_key, pc, runs, url, transcript, video_id, text_chunks, idx,
           chunk_summaries, attempt, model_arg, call, session, fetch_cache,
           chunk_cache, reduce_cache, results, log, reducer, reports, delivered,
           source_calls, stages, written>>

vars == <<cvars, pvars>>

\* ------------------------------------------------------------------ bounds
\* Generate clicks in one session of the web app.
MaxRuns == 2

\* --------------------------------------------------------------- constants
\* chunk_text's defaults, which both orchestrators use.
DEFAULT_CHUNK_SIZE == 8000
DEFAULT_OVERLAP == 400
\* summarize_chunk's default max_attempts.
MAX_ATTEMPTS == 3
\* get_video_id: the length of a bare video id.
ID_LENGTH == 11

MODEL_CHOICE == "models/gemini-2.5-flash"

Formats == {"Standard Summary", "Bullet-Point Takeaways",
            "Tweet Thread (3 Tweets)", "Blog Post"}

\* main.py's create_final_summary takes no format: its prompt fixes one layout.
MAIN_FORMAT == "main.py layout"

NoId == "<None>"
NoMatch == "<no match>"
ValueError == "<ValueError>"

\* ------------------------------------------------- the transcript source
\* What YouTubeTranscriptApi().fetch answers for each video (an external
\* collaborator): an exception, or the text of the joined snippets.
Videos == {"V_DISABLED", "V_MISSING", "V_ERROR", "V_EMPTY", "V_BLANK", "V_SHORT", "V_LONG"}

Source(vid) ==
    CASE vid = "V_DISABLED" -> [kind |-> "TranscriptsDisabled", text |-> <<>>]
      [] vid = "V_MISSING"  -> [kind |-> "NoTranscriptFound", text |-> <<>>]
      [] vid = "V_EMPTY"    -> [kind |-> "ok", text |-> <<>>]
      [] vid = "V_BLANK"    -> [kind |-> "ok", text |-> <<" ">>]
      [] vid = "V_SHORT"    -> [kind |-> "ok", text |-> <<"a", "b">>]
      [] vid = "V_LONG"     -> [kind |-> "ok", text |-> [p \in 1..15600 |-> "a"]]
      [] OTHER              -> [kind |-> "Exception", text |-> <<>>]

\* A fetched text is held in the state by reference.
TextRef(vid) == <<"transcript of", vid>>

TextOf(ref) == IF ref = None THEN None ELSE Source(ref[2]).text

\* What the user may type: text, the id the regex finds in it, its length.
Locators ==
    {[text |-> "", match |-> NoMatch, len |-> 0],
     [text |-> "junk", match |-> NoMatch, len |-> 4],
     [text |-> "hello world", match |-> NoMatch, len |-> ID_LENGTH],
     [text |-> "V_SHORT", match |-> NoMatch, len |-> ID_LENGTH]}
    \cup {[text |-> "https://youtu.be/" \o v, match |-> v, len |-> 28] : v \in Videos}

NoLocator == [text |-> "", match |-> NoMatch, len |-> 0]

\* ------------------------------------------------------------ get_video_id
\* Mutant of get_video_id: a text without a match is taken as an id whatever
\* its length.
get_video_id_any_length(url_or_id) ==
    IF url_or_id.match # NoMatch THEN url_or_id.match ELSE url_or_id.text

get_video_id(url_or_id) ==
    IF url_or_id.match # NoMatch THEN url_or_id.match
    ELSE IF url_or_id.len = ID_LENGTH THEN url_or_id.text
    ELSE ValueError

\* -------------------------------------------------------- fetch_transcript
\* Its result, the error it reports, and whether it reached the source.
fetch_transcript(youtube_url_or_id) ==
    LET vid == get_video_id(youtube_url_or_id)
        got == Source(vid)
    IN  IF vid = ValueError
        THEN [transcript |-> None, video_id |-> NoId,
              report |-> "fetch_unexpected_error", contacted |-> FALSE]
        ELSE CASE got.kind = "TranscriptsDisabled" ->
                    [transcript |-> None, video_id |-> vid,
                     report |-> "transcripts_disabled", contacted |-> TRUE]
               [] got.kind = "NoTranscriptFound" ->
                    [transcript |-> None, video_id |-> vid,
                     report |-> "no_transcript_found", contacted |-> TRUE]
               [] got.kind = "Exception" ->
                    [transcript |-> None, video_id |-> NoId,
                     report |-> "fetch_unexpected_error", contacted |-> TRUE]
               [] OTHER ->
                    [transcript |-> TextRef(vid), video_id |-> vid,
                     report |-> "", contacted |-> TRUE]

\* ------------------------------------------------------------- chunk pool
\* Every chunk the transcripts above are cut into; a chunk is held in the state
\* as the index of its first occurrence here, so equal chunks have equal indices.
RECURSIVE Flatten(_)
Flatten(lists) == IF lists = <<>> THEN <<>> ELSE Head(lists) \o Flatten(Tail(lists))

OkVideos == <<"V_EMPTY", "V_BLANK", "V_SHORT", "V_LONG">>

ChunkPool ==
    Flatten([k \in 1..Len(OkVideos) |->
                chunk_text(Source(OkVideos[k]).text, DEFAULT_CHUNK_SIZE, DEFAULT_OVERLAP)])

Intern(chunk) ==
    CHOOSE k \in 1..Len(ChunkPool) :
        ChunkPool[k] = chunk /\ \A j \in 1..(k - 1) : ChunkPool[j] # chunk

\* ------------------------------------------------------ generation service
\* A reference to a model: a model name ("name"), a GenerativeModel built from
\* what `of` says ("model"), or None ("none").
ModelName == [kind |-> "name", of |-> MODEL_CHOICE]
NoModel == [kind |-> "none", of |-> ""]
ModelFrom(ref) ==
    [kind |-> "model",
     of |-> IF ref.kind = "name" THEN ref.of ELSE "<not a model name>"]

\* main.py's configure_api: None without the key, else the model.
configure_api_main(model_name) ==
    IF api_key THEN ModelFrom(model_name) ELSE NoModel

\* app.py's configure_api: the values it may return.  None without the key;
\* the model for a model name; for anything else GenerativeModel either raises
\* (caught: None) or builds a model from what it was given.
configure_api_app(model_name) ==
    IF ~api_key THEN {NoModel}
    ELSE IF model_name.kind = "name" THEN {ModelFrom(model_name)}
    ELSE {NoModel, ModelFrom(model_name)}

\* model.generate_content(prompt) then response.text: whether the service is
\* reached, and what may come back.  None has no generate_content (AttributeError);
\* the service rejects a model that was not built from a model name.
Reaches(model) == model.kind = "model"

generate_content(model) ==
    IF model.kind = "model" /\ model.of = MODEL_CHOICE
    THEN {"raise", "empty", "text"}
    ELSE {"raise"}

\* The text the service returns for a chunk, and for the reduction.
SummaryText(chunk) == <<"summary of chunk #" \o ToString(chunk)>>
FinalText == <<"final summary">>

\* -------------------------------------------------- create_final_summary
RECURSIVE join(_, _)
join(sep, list) ==
    IF list = <<>> THEN <<>>
    ELSE IF Len(list) = 1 THEN list[1]
    ELSE list[1] \o sep \o join(sep, Tail(list))

Instruction(format) ==
    CASE format = "Standard Summary" ->
             "**Overview:** ... **Key Takeaways:** [5-7 bullet points] **Suggested Chapters:** [3-5 chapter titles]"
      [] format = "Bullet-Point Takeaways" ->
             "provide *only* a list of 10-15 detailed bullet points"
      [] format = "Tweet Thread (3 Tweets)" ->
             "provide exactly 3 numbered tweets (1/3, 2/3, 3/3)"
      [] OTHER ->
             "provide a short, 3-paragraph blog post"

\* One line of IMPORTANT FORMATTING RULES.
Rule(format) == <<"- If the user requested", format, Instruction(format)>>

\* Mutant of FormattingRules: the rule of one format is left out.
FormattingRulesShort ==
    Rule("Standard Summary") \o Rule("Bullet-Point Takeaways")
    \o Rule("Tweet Thread (3 Tweets)")

FormattingRules ==
    Rule("Standard Summary") \o Rule("Bullet-Point Takeaways")
    \o Rule("Tweet Thread (3 Tweets)") \o Rule("Blog Post")

\* app.py's prompt.
final_prompt_app(summaries, summary_format, video_title) ==
    <<"You are an expert video summarizer ... transcript titled", video_title,
      "The user has requested the output in this specific format:", summary_format,
      "Here are the chunked summaries:">>
    \o join(<<"\n\n">>, summaries)
    \o <<"Please generate the final, synthesized summary now.",
         "**IMPORTANT FORMATTING RULES:**">>
    \o FormattingRules

\* main.py's prompt.
final_prompt_main(summaries, video_title) ==
    <<"You are an expert video summarizer ... transcript titled", video_title,
      "The output MUST be in the following Markdown format:",
      "**Overview:** [3-4 lines] **Key Takeaways:** [5 takeaways] **Suggested Chapters:** [3 chapter titles]",
      "Here are the chunked summaries:">>
    \o join(<<"\n\n">>, summaries)
    \o <<"Please generate the final, synthesized summary now.">>

\* ------------------------------------------------------------- the state
Put(f, k, v) == [x \in (DOMAIN f) \cup {k} |-> IF x = k THEN v ELSE f[x]]
Pop(f, k) == [x \in (DOMAIN f) \ {k} |-> f[x]]
Empty == [x \in {} |-> 0]

NoCall == [service_calls |-> 0, waited |-> 0]
NotCalled == [called |-> FALSE]

PipelineIdle ==
    /\ pc = "idle"
    /\ runs = 0
    /\ url = NoLocator
    /\ transcript = None
    /\ video_id = NoId
    /\ text_chunks = <<>>
    /\ idx = 1
    /\ chunk_summaries = <<>>
    /\ attempt = 0
    /\ model_arg = NoModel
    /\ call = NoCall
    /\ session = Empty
    /\ fetch_cache = Empty
    /\ chunk_cache = Empty
    /\ reduce_cache = Empty
    /\ results = <<>>
    /\ log = <<>>
    /\ reducer = NotCalled
    /\ reports = {}
    /\ delivered = None
    /\ source_calls = 0
    /\ stages = <<>>
    /\ written = Empty

ChunkIdle ==
    /\ ct_text = None
    /\ ct_size = 0
    /\ ct_overlap = 0
    /\ ct_pc = "idle"
    /\ ct_chunks = <<>>

Init ==
    /\ program \in {"main", "app"}
    /\ api_key \in BOOLEAN
    /\ PipelineIdle
    /\ ChunkIdle

IsApp == program = "app"

config == <<program, api_key>>
caches == <<fetch_cache, chunk_cache, reduce_cache>>

\* ---------------------------------------------------------- orchestrator
\* Mutant of clear_results: the earlier run's summary is left in place.
clear_results_keeps_summary(state) == Pop(Pop(state, "full_transcript"), "video_id")

\* app.py: st.session_state.pop("final_summary", None), then the same for
\* "full_transcript" and "video_id".
clear_results(state) ==
    Pop(Pop(Pop(state, "final_summary"), "full_transcript"), "video_id")

\* Mutant of has_transcript: only None stops the run.
has_transcript_not_none(text) == text # None

\* if transcript:
has_transcript(text) == Truthy(text)

\* Mutant of loop_done: the last chunk is left out.
loop_done_early(i, chunks) == i >= Len(chunks)

\* for i, chunk in enumerate(text_chunks): the list is exhausted.
loop_done(i, chunks) == i > Len(chunks)

\* main.py: main() up to step 1.  app.py: the Generate Summary button, up to
\* the spinner.
StartRun(loc) ==
    /\ pc \in {"idle", "done"}
    /\ runs < (IF IsApp THEN MaxRuns ELSE 1)
    /\ runs' = runs + 1
    /\ url' = loc
    /\ transcript' = None
    /\ video_id' = NoId
    /\ text_chunks' = <<>>
    /\ idx' = 1
    /\ chunk_summaries' = <<>>
    /\ attempt' = 0
    /\ model_arg' = NoModel
    /\ call' = NoCall
    /\ results' = <<>>
    /\ log' = <<>>
    /\ reducer' = NotCalled
    /\ delivered' = None
    /\ source_calls' = 0
    /\ IF IsApp
       THEN IF loc.text = ""
            THEN /\ reports' = {"enter_url"}
                 /\ pc' = "done"
                 /\ session' = session
                 /\ written' = written
            ELSE /\ reports' = {}
                 /\ pc' = "fetch"
                 /\ session' = clear_results(session)
                 /\ written' = clear_results(written)
       ELSE /\ UNCHANGED <<session, written>>
            /\ IF configure_api_main(ModelName) = NoModel
               THEN reports' = {"api_not_configured"} /\ pc' = "done"
               ELSE reports' = {} /\ pc' = "fetch"
    /\ stages' = IF pc' = "fetch" THEN <<"fetch">> ELSE <<>>
    /\ UNCHANGED <<cvars, config, caches>>

\* Step 1 and the test of its result: transcript, video_id = fetch_transcript(URL);
\* if transcript: ... (main.py has an else branch, app.py has none).
FetchTranscript ==
    /\ pc = "fetch"
    /\ LET hit == IsApp /\ url \in DOMAIN fetch_cache
           r   == IF hit THEN fetch_cache[url] ELSE fetch_transcript(url)
       IN  /\ transcript' = r.transcript
           /\ video_id' = r.video_id
           /\ source_calls' = IF ~hit /\ r.contacted THEN source_calls + 1 ELSE source_calls
           /\ fetch_cache' = IF IsApp THEN Put(fetch_cache, url, r) ELSE fetch_cache
           /\ IF has_transcript(TextOf(r.transcript))
              THEN /\ pc' = "segment"
                   /\ stages' = Append(stages, "segment")
                   /\ reports' = reports
                   /\ session' = IF IsApp THEN Put(session, "full_transcript", r.transcript)
                                 ELSE session
                   /\ written' = IF IsApp THEN Put(written, "full_transcript", runs)
                                 ELSE written
              ELSE /\ pc' = "done"
                   /\ reports' = (IF r.report = "" THEN reports ELSE reports \cup {r.report})
                                 \cup (IF IsApp THEN {} ELSE {"transcript_not_fetched"})
                   /\ UNCHANGED <<session, written, stages>>
    /\ UNCHANGED <<cvars, config, runs, url, text_chunks, idx, chunk_summaries, attempt, model_arg,
                   call, chunk_cache, reduce_cache, results, log, reducer, delivered>>

\* Step 2: text_chunks = chunk_text(transcript); chunk_summaries = [].
Segment ==
    /\ pc = "segment"
    /\ LET chunks == chunk_text(TextOf(transcript), DEFAULT_CHUNK_SIZE, DEFAULT_OVERLAP)
       IN  text_chunks' = [k \in 1..Len(chunks) |-> Intern(chunks[k])]
    /\ chunk_summaries' = <<>>
    /\ idx' = 1
    /\ pc' = "loop"
    /\ stages' = Append(stages, "summarize")
    /\ UNCHANGED <<cvars, config, caches, runs, url, transcript, video_id, attempt, model_arg, call,
                   session, written, results, log, reducer, reports, delivered, source_calls>>

\* Mutant of keep: the new summary is put in front.
keep_in_front(summaries, summary) ==
    IF Truthy(summary) THEN <<summary>> \o summaries ELSE summaries

\* if summary: chunk_summaries.append(summary)
keep(summaries, summary) ==
    IF Truthy(summary) THEN Append(summaries, summary) ELSE summaries

\* Mutant of Returned_to_loop: a chunk without a summary is handed over again.
Returned_to_loop_resubmit(summary, cached) ==
    /\ results' = Append(results, [value |-> summary, cached |-> cached,
                                   attempts |-> IF cached THEN 0 ELSE attempt,
                                   service_calls |-> call'.service_calls,
                                   waited |-> call'.waited])
    /\ chunk_summaries' = keep(chunk_summaries, summary)
    /\ idx' = IF Truthy(summary) THEN idx + 1 ELSE idx
    /\ pc' = "loop"

\* summarize_chunk has returned `summary` for chunk idx: the loop body's rest.
Returned_to_loop(summary, cached) ==
    /\ results' = Append(results, [value |-> summary, cached |-> cached,
                                   attempts |-> IF cached THEN 0 ELSE attempt,
                                   service_calls |-> call'.service_calls,
                                   waited |-> call'.waited])
    /\ chunk_summaries' = keep(chunk_summaries, summary)
    /\ idx' = idx + 1
    /\ pc' = "loop"

\* The for loop is over.
LoopExit ==
    /\ pc = "loop"
    /\ loop_done(idx, text_chunks)
    /\ pc' = "reduce"
    /\ stages' = Append(stages, "reduce")
    /\ UNCHANGED <<cvars, written, config, caches, runs, url, transcript, video_id, text_chunks, idx,
                   chunk_summaries, attempt, model_arg, call, session, results, log,
                   reducer, reports, delivered, source_calls>>

\* app.py: summarize_chunk(chunk, MODEL_CHOICE) is answered by st.cache_data.
SummarizeCached ==
    /\ pc = "loop"
    /\ ~loop_done(idx, text_chunks)
    /\ IsApp
    /\ text_chunks[idx] \in DOMAIN chunk_cache
    /\ call' = NoCall
    /\ Returned_to_loop(chunk_cache[text_chunks[idx]], TRUE)
    /\ UNCHANGED <<cvars, stages, written, config, caches, runs, url, transcript, video_id, text_chunks, attempt,
                   model_arg, session, log, reducer, reports, delivered, source_calls>>

\* summary = summarize_chunk(chunk, model): the call is entered, attempt = 1.
SummarizeCall ==
    /\ pc = "loop"
    /\ ~loop_done(idx, text_chunks)
    /\ ~(IsApp /\ text_chunks[idx] \in DOMAIN chunk_cache)
    /\ attempt' = 1
    /\ model_arg' = IF IsApp THEN ModelName ELSE configure_api_main(ModelName)
    /\ call' = NoCall
    /\ pc' = "attempt"
    /\ UNCHANGED <<cvars, stages, written, config, caches, runs, url, transcript, video_id, text_chunks, idx,
                   chunk_summaries, session, results, log, reducer, reports, delivered,
                   source_calls>>

\* Mutant of retry_arg: the retry passes model_name on.
retry_arg_same(model_name, model) == model_name

\* The second argument of the recursive call: main.py passes its parameter
\* model; app.py passes its local variable model where model_name is expected.
retry_arg(model_name, model) == IF IsApp THEN model ELSE model_name

\* Mutant of may_retry: one attempt too many.
may_retry_more(n) == n <= MAX_ATTEMPTS

\* if attempt < max_attempts
may_retry(n) == n < MAX_ATTEMPTS

\* Mutant of backoff: a fixed wait.
backoff_fixed(n) == 2

\* time.sleep(2**attempt)
backoff(n) == 2 ^ n

\* The body of summarize_chunk, one attempt: the try block and, when it raises,
\* the except block up to the sleep.
Attempt ==
    /\ pc = "attempt"
    /\ \E model \in (IF IsApp THEN configure_api_app(model_arg) ELSE {model_arg}) :
       \E out \in generate_content(model) :
          /\ call' = [call EXCEPT !.service_calls = IF Reaches(model) THEN @ + 1 ELSE @]
          /\ log' = Append(log, [op |-> IF Reaches(model) THEN "generate" ELSE "no_model",
                                  by |-> "summarize_chunk", chunk |-> idx,
                                  attempt |-> attempt, ref |-> model.of,
                                  outcome |-> out])
          /\ IF out = "raise" /\ may_retry(attempt)
             THEN /\ pc' = "sleep"
                  /\ model_arg' = retry_arg(model_arg, model)
                  /\ UNCHANGED <<chunk_cache, results, chunk_summaries, idx>>
             ELSE LET summary == CASE out = "raise" -> None
                                   [] out = "empty" -> <<>>
                                   [] OTHER -> SummaryText(text_chunks[idx])
                  IN  /\ chunk_cache' = IF IsApp
                                        THEN Put(chunk_cache, text_chunks[idx], summary)
                                        ELSE chunk_cache
                      /\ Returned_to_loop(summary, FALSE)
                      /\ model_arg' = model_arg
    /\ UNCHANGED <<cvars, stages, written, config, fetch_cache, reduce_cache, runs, url, transcript, video_id,
                   text_chunks, attempt, session, reducer, reports, delivered, source_calls>>

\* time.sleep(2**attempt), then the recursive call with attempt + 1.
Sleep ==
    /\ pc = "sleep"
    /\ call' = [call EXCEPT !.waited = @ + backoff(attempt)]
    /\ log' = Append(log, [op |-> "sleep", by |-> "summarize_chunk", chunk |-> idx,
                           attempt |-> attempt, secs |-> backoff(attempt)])
    /\ attempt' = attempt + 1
    /\ pc' = "attempt"
    /\ UNCHANGED <<cvars, stages, written, config, caches, runs, url, transcript, video_id, text_chunks, idx,
                   chunk_summaries, model_arg, session, results, reducer, reports,
                   delivered, source_calls>>

\* Mutant of has_summaries: the reduction is attempted whatever the list holds.
has_summaries_always(summaries) == TRUE

\* if chunk_summaries:
has_summaries(summaries) == summaries # <<>>

\* Step 4, else branch: no chunk summary was kept.
ReduceNothing ==
    /\ pc = "reduce"
    /\ ~has_summaries(chunk_summaries)
    /\ reports' = reports \cup {"no_chunk_summaries"}
    /\ pc' = "done"
    /\ UNCHANGED <<cvars, stages, written, config, caches, runs, url, transcript, video_id, text_chunks, idx,
                   chunk_summaries, attempt, model_arg, call, session, results, log,
                   reducer, delivered, source_calls>>

\* Mutant of Finish: the result is stored without the test.
Finish_untested(final_summary) ==
    /\ pc' = "done"
    /\ delivered' = final_summary
    /\ reports' = reports
    /\ session' = IF IsApp
                  THEN Put(Put(session, "final_summary", final_summary),
                           "video_id", video_id)
                  ELSE session
    /\ written' = IF IsApp
                  THEN Put(Put(written, "final_summary", runs), "video_id", runs)
                  ELSE written

\* Mutant of Finish: a failed reduction sends the run back to the fetch.
Finish_restart(final_summary) ==
    /\ IF Truthy(final_summary)
       THEN /\ pc' = "done"
            /\ delivered' = final_summary
            /\ reports' = reports
            /\ session' = IF IsApp
                          THEN Put(Put(session, "final_summary", final_summary),
                                   "video_id", video_id)
                          ELSE session
            /\ written' = IF IsApp
                          THEN Put(Put(written, "final_summary", runs), "video_id", runs)
                          ELSE written
       ELSE /\ pc' = "fetch"
            /\ delivered' = delivered
            /\ reports' = reports \cup {"final_summary_failed"}
            /\ UNCHANGED <<session, written>>

\* if final_summary: ... else: ... (steps 4 and 5 after create_final_summary).
Finish(final_summary) ==
    /\ pc' = "done"
    /\ IF Truthy(final_summary)
       THEN /\ delivered' = final_summary
            /\ reports' = reports
            /\ session' = IF IsApp
                          THEN Put(Put(session, "final_summary", final_summary),
                                   "video_id", video_id)
                          ELSE session
            /\ written' = IF IsApp
                          THEN Put(Put(written, "final_summary", runs), "video_id", runs)
                          ELSE written
       ELSE /\ delivered' = delivered
            /\ reports' = reports \cup {"final_summary_failed"}
            /\ UNCHANGED <<session, written>>

\* app.py: create_final_summary is answered by st.cache_data.
ReduceCached ==
    /\ pc = "reduce"
    /\ has_summaries(chunk_summaries)
    /\ IsApp
    /\ \E format \in Formats :
          LET key == <<chunk_summaries, format, video_id>>
          IN  /\ key \in DOMAIN reduce_cache
              /\ reducer' = [called |-> TRUE, executed |-> FALSE,
                             summaries |-> chunk_summaries, format |-> format,
                             title |-> video_id, prompt |-> <<>>, service_calls |-> 0,
                             result |-> reduce_cache[key]]
              /\ Finish(reduce_cache[key])
    /\ UNCHANGED <<cvars, stages, config, caches, runs, url, transcript, video_id, text_chunks, idx,
                   chunk_summaries, attempt, model_arg, call, results, log, source_calls>>

\* create_final_summary's body: the prompt, one call of the service, its result.
ReduceCall ==
    /\ pc = "reduce"
    /\ has_summaries(chunk_summaries)
    /\ \E format \in (IF IsApp THEN Formats ELSE {MAIN_FORMAT}) :
       \E model \in (IF IsApp THEN configure_api_app(ModelName)
                     ELSE {configure_api_main(ModelName)}) :
       \E out \in generate_content(model) :
          LET key == <<chunk_summaries, format, video_id>>
              final_summary == CASE out = "raise" -> None
                                 [] out = "empty" -> <<>>
                                 [] OTHER -> FinalText
              prompt == IF IsApp
                        THEN final_prompt_app(chunk_summaries, format, video_id)
                        ELSE final_prompt_main(chunk_summaries, video_id)
              n == IF Reaches(model) THEN 1 ELSE 0
          IN  /\ ~(IsApp /\ key \in DOMAIN reduce_cache)
              /\ reducer' = [called |-> TRUE, executed |-> TRUE,
                             summaries |-> chunk_summaries, format |-> format,
                             title |-> video_id, prompt |-> prompt,
                             service_calls |-> n, result |-> final_summary]
              /\ log' = log \o [k \in 1..n |->
                                   [op |-> "generate", by |-> "create_final_summary",
                                    chunk |-> 0, attempt |-> k, ref |-> model.of,
                                    outcome |-> out]]
              /\ reduce_cache' = IF IsApp THEN Put(reduce_cache, key, final_summary)
                                 ELSE reduce_cache
              /\ Finish(final_summary)
    /\ UNCHANGED <<cvars, stages, config, fetch_cache, chunk_cache, runs, url, transcript, video_id,
                   text_chunks, idx, chunk_summaries, attempt, model_arg, call, results,
                   source_calls>>

Next ==
    \/ \E loc \in Locators : StartRun(loc)
    \/ FetchTranscript
    \/ Segment
    \/ LoopExit
    \/ SummarizeCached
    \/ SummarizeCall
    \/ Attempt
    \/ Sleep
    \/ ReduceNothing
    \/ ReduceCached
    \/ ReduceCall

Spec == Init /\ [][Next]_vars

\* A step of a started run.  Both programs run a started pipeline to its end in
\* one thread, statement after statement, and every call they make returns or
\* raises: a step that can be taken is taken.  Starting a run is the user's.
Step ==
    \/ FetchTranscript
    \/ Segment
    \/ LoopExit
    \/ SummarizeCached
    \/ SummarizeCall
    \/ Attempt
    \/ Sleep
    \/ ReduceNothing
    \/ ReduceCached
    \/ ReduceCall

SpecFair == Spec /\ WF_vars(Step)

\* --------------------------------------------------- pipeline: properties
RunOver == pc = "done"

\* The summaries among what summarize_chunk returned, in chunk order.
RECURSIVE Successes(_, _)
Successes(res, k) ==
    IF k > Len(res) THEN <<>>
    ELSE (IF Truthy(res[k].value) THEN <<res[k].value>> ELSE <<>>) \o Successes(res, k + 1)

\* C1: the list handed to create_final_summary is the summaries of the chunks
\* that got one (a non-empty text), in chunk order, each the summary of its own
\* chunk; a chunk without a summary leaves nothing in the list.
C1_ReducerGetsSuccessesInOrder ==
    reducer.called =>
        /\ Len(results) = Len(text_chunks)
        /\ \A k \in 1..Len(results) :
              Truthy(results[k].value) => results[k].value = SummaryText(text_chunks[k])
        /\ reducer.summaries = Successes(results, 1)

C1_Witness ==
    /\ reducer.called
    /\ Len(results) = 3
    /\ Truthy(results[1].value) /\ results[2].value = None /\ Truthy(results[3].value)
    /\ results[1].value # results[3].value

\* C2: when no chunk of a segmented run got a summary, create_final_summary is
\* not called and the run reports "no chunk summaries", which is not the report
\* of a failed reduction; a failed reduction is reported as such.
C2_AllFailShortCircuit ==
    /\ (RunOver /\ text_chunks # <<>> /\ \A k \in 1..Len(results) : ~Truthy(results[k].value))
          => /\ Len(results) = Len(text_chunks)
             /\ ~reducer.called
             /\ "no_chunk_summaries" \in reports
             /\ "final_summary_failed" \notin reports
    /\ (RunOver /\ reducer.called /\ ~Truthy(reducer.result))
          => /\ "final_summary_failed" \in reports
             /\ "no_chunk_summaries" \notin reports

C2_Witness ==
    /\ RunOver /\ Len(text_chunks) = 3 /\ Len(results) = 3
    /\ \A k \in 1..3 : results[k].value = None
    /\ ~results[1].cached /\ results[1].service_calls = 3

\* C3: a call of summarize_chunk in which every attempt failed has called the
\* generation service exactly 3 times and waited 2 + 4 before it returns None.
C3_ThreeCallsThenNone ==
    \A k \in 1..Len(results) :
        (api_key /\ ~results[k].cached /\ results[k].value = None)
            => /\ results[k].attempts = MAX_ATTEMPTS
               /\ results[k].service_calls = 3
               /\ results[k].waited >= 2 + 4

\* C8: a run ends with a final summary delivered or with a fatal condition
\* reported, and never with both or with neither.
C8_SummaryOrReport ==
    RunOver => ((delivered # None) # (reports # {}))

\* C9 as stated: in a run in which some chunk got a summary the reducer calls
\* the generation service exactly once; a failed call yields no final summary
\* and the report of the failed reduction.
C9_ReducerCallsOnce ==
    (RunOver /\ chunk_summaries # <<>>) =>
        /\ reducer.called
        /\ reducer.service_calls = 1
        /\ reducer.result = None =>
              (delivered = None /\ "final_summary_failed" \in reports)

\* C9 amended: create_final_summary is called once and calls the service once
\* when its body runs, which it always does in main.py; in app.py a call that
\* st.cache_data answers calls the service zero times.  A failed reduction
\* delivers and stores no final summary and is reported.
C9_ReducerCallsOnceUnlessCached ==
    (RunOver /\ chunk_summaries # <<>>) =>
        /\ reducer.called
        /\ reducer.service_calls = (IF reducer.executed THEN 1 ELSE 0)
        /\ ~IsApp => reducer.executed
        /\ Len(SelectSeq(log, LAMBDA e : e.by = "create_final_summary"))
              = reducer.service_calls
        /\ reducer.result = None =>
              /\ delivered = None
              /\ "final_summary_failed" \in reports
              /\ "final_summary" \notin DOMAIN session

C9_Witness ==
    /\ RunOver /\ chunk_summaries # <<>>
    /\ reducer.called /\ reducer.executed /\ reducer.service_calls = 1
    /\ reducer.result = None

Contains(prompt, token) == \E k \in 1..Len(prompt) : prompt[k] = token

\* The positions of the prompt at which the rule of `format` stands.
RuleAt(prompt, format) ==
    {k \in 1..(Len(prompt) - 2) :
        SubSeq(prompt, k, k + 2) = Rule(format)}

\* C10 as stated: the prompt of app.py's create_final_summary holds the
\* instruction text of the requested format and of no other format.
C10_OnlyRequestedInstruction ==
    (IsApp /\ reducer.called /\ reducer.executed) =>
        /\ Contains(reducer.prompt, Instruction(reducer.format))
        /\ \A g \in Formats \ {reducer.format} : ~Contains(reducer.prompt, Instruction(g))

\* C10 amended: the prompt names the requested format, and no other, in its
\* request line, and holds the instruction text of each of the four formats
\* once, each behind "If the user requested <that format>".
C10_RequestedNamedAllRulesListed ==
    (IsApp /\ reducer.called /\ reducer.executed) =>
        /\ reducer.format \in Formats
        /\ \E k \in 1..(Len(reducer.prompt) - 1) :
              /\ reducer.prompt[k] = "The user has requested the output in this specific format:"
              /\ reducer.prompt[k + 1] = reducer.format
              /\ \A j \in 1..Len(reducer.prompt) :
                    reducer.prompt[j] = reducer.prompt[k] => j = k
        /\ \A g \in Formats : Cardinality(RuleAt(reducer.prompt, g)) = 1

C10_Witness ==
    /\ IsApp /\ reducer.called /\ reducer.executed
    /\ reducer.format = "Blog Post"
    /\ Len(reducer.summaries) = 3

\* The calls of the generation service made so far in the run.
GenerationCalls == SelectSeq(log, LAMBDA e : e.op = "generate")

NoWorkDone ==
    /\ Len(GenerationCalls) = 0
    /\ results = <<>>
    /\ chunk_summaries = <<>>
    /\ ~reducer.called
    /\ delivered = None

\* C11: a run whose fetch gave no text (None or the empty text) ends at the
\* fetch, before segmentation; a run whose segmentation gave no chunk does no
\* summarization and no reduction; in both the generation service is called
\* zero times.
C11_NoTextNoCalls ==
    /\ (Contains(stages, "fetch") /\ pc # "fetch" /\ ~Truthy(TextOf(transcript)))
          => /\ stages = <<"fetch">>
             /\ pc = "done"
             /\ text_chunks = <<>>
             /\ NoWorkDone
    /\ (Contains(stages, "summarize") /\ text_chunks = <<>>)
          => /\ NoWorkDone
             /\ pc \in {"loop", "reduce", "done"}
             /\ RunOver => "no_chunk_summaries" \in reports

C11_Witness ==
    /\ RunOver
    /\ Truthy(TextOf(transcript))
    /\ stages = <<"fetch", "segment", "summarize", "reduce">>
    /\ text_chunks = <<>>

\* A locator in which the id pattern finds nothing and whose length is not 11.
Rejected(loc) == loc.match = NoMatch /\ loc.len # ID_LENGTH

\* C12: for a locator without a pattern match and not 11 characters long
\* get_video_id raises, the transcript source is not contacted, the fetch
\* gives no text and the generation service is not called.
C12_BadLocatorNoExternalCall ==
    (runs > 0 /\ Rejected(url)) =>
        /\ get_video_id(url) = ValueError
        /\ source_calls = 0
        /\ transcript = None
        /\ video_id = NoId
        /\ ~Contains(stages, "segment")
        /\ NoWorkDone

C12_Witness ==
    /\ RunOver
    /\ url.text = "junk"
    /\ stages = <<"fetch">>
    /\ "fetch_unexpected_error" \in reports

\* An entry of log that is an attempt of summarize_chunk (its try block ran).
IsAttempt(e) == e.by = "summarize_chunk" /\ e.op \in {"generate", "no_model"}

IsSleep(e) == e.op = "sleep"

\* C15: in summarize_chunk a sleep follows a failed attempt n < 3 of the same
\* chunk and lasts 2^n seconds; attempt n + 1 follows the sleep after attempt n
\* and nothing else; nothing of the chunk follows a failed attempt 3 or an
\* attempt that did not fail.
C15_BackoffBetweenAttempts ==
    \A k \in 1..Len(log) :
        LET e == log[k]
            last == k = Len(log)
        IN  /\ IsSleep(e) =>
                  /\ k > 1 /\ IsAttempt(log[k - 1])
                  /\ log[k - 1].chunk = e.chunk /\ log[k - 1].attempt = e.attempt
                  /\ log[k - 1].outcome = "raise"
                  /\ e.attempt \in 1..2
                  /\ e.secs = 2 ^ e.attempt
                  /\ ~last => /\ IsAttempt(log[k + 1])
                              /\ log[k + 1].chunk = e.chunk
                              /\ log[k + 1].attempt = e.attempt + 1
            /\ IsAttempt(e) =>
                  /\ e.attempt \in 1..3
                  /\ e.attempt > 1 =>
                        /\ k > 1 /\ IsSleep(log[k - 1])
                        /\ log[k - 1].chunk = e.chunk /\ log[k - 1].attempt = e.attempt - 1
                  /\ e.attempt = 1 => (k = 1 \/ ~IsSleep(log[k - 1]))
                  /\ (~last /\ e.outcome = "raise" /\ e.attempt < 3) => IsSleep(log[k + 1])
                  /\ (~last /\ (e.outcome # "raise" \/ e.attempt = 3)) =>
                        /\ ~IsSleep(log[k + 1])
                        /\ log[k + 1].chunk # e.chunk
                  /\ (last /\ (e.outcome # "raise" \/ e.attempt = 3)) => pc # "sleep"

C15_Witness ==
    /\ Len(log) >= 6
    /\ IsAttempt(log[1]) /\ log[1].outcome = "raise"
    /\ IsSleep(log[2]) /\ log[2].secs = 2
    /\ IsAttempt(log[3]) /\ log[3].outcome = "raise"
    /\ IsSleep(log[4]) /\ log[4].secs = 4
    /\ IsAttempt(log[5]) /\ log[5].attempt = 3 /\ log[5].outcome = "raise"
    /\ IsAttempt(log[6]) /\ log[6].chunk = 2 /\ log[6].attempt = 1

\* C16: the attempts and sleeps of summarize_chunk appear in chunk order, those
\* of chunk i all before the first of chunk i + 1, and only the chunk after the
\* resolved ones is being worked on; the call of create_final_summary comes
\* after every chunk has got its result and nothing of a chunk follows it.
C16_ChunksInOrderThenReducer ==
    /\ \A j, k \in 1..Len(log) :
          (j < k /\ log[j].by = "summarize_chunk" /\ log[k].by = "summarize_chunk")
              => log[j].chunk <= log[k].chunk
    /\ \A k \in 1..Len(log) :
          log[k].by = "summarize_chunk" =>
              /\ log[k].chunk \in 1..Len(text_chunks)
              /\ log[k].chunk <= Len(results) + 1
              /\ log[k].chunk = Len(results) + 1 => pc \in {"attempt", "sleep"}
    /\ \A k \in 1..Len(log) :
          log[k].by = "create_final_summary" => (k = Len(log) /\ reducer.called)
    /\ reducer.called =>
          /\ Len(results) = Len(text_chunks)
          /\ pc = "done"

C16_Witness ==
    /\ RunOver /\ reducer.called /\ Len(text_chunks) = 3
    /\ Len(log) = 8
    /\ log[1].chunk = 1 /\ IsSleep(log[2]) /\ log[3].chunk = 1
    /\ log[4].chunk = 2
    /\ log[5].chunk = 3 /\ IsSleep(log[6]) /\ log[7].chunk = 3
    /\ log[8].by = "create_final_summary"

\* Chunk j of the run was given up after its attempts were exhausted.
Exhausted(j) == results[j].value = None /\ results[j].attempts = MAX_ATTEMPTS

\* C17: a chunk that was given up does not end the run: every later chunk is
\* summarized, beginning with an attempt 1 of its own and given up only after 3
\* attempts of its own.
C17_FailureDoesNotStopLaterChunks ==
    /\ \A k \in 1..Len(results) :
          (\E j \in 1..(k - 1) : Exhausted(j)) =>
              /\ results[k].attempts >= 1
              /\ \E n \in 1..Len(log) :
                    IsAttempt(log[n]) /\ log[n].chunk = k /\ log[n].attempt = 1
              /\ results[k].value = None => results[k].attempts = MAX_ATTEMPTS
    /\ (RunOver /\ Contains(stages, "summarize")) => Len(results) = Len(text_chunks)

\* The stages in the order of the pipeline.
StageOrder == <<"fetch", "segment", "summarize", "reduce">>

StageRank(p) ==
    CASE p = "idle" -> 0
      [] p = "fetch" -> 1
      [] p = "segment" -> 2
      [] p \in {"loop", "attempt", "sleep"} -> 3
      [] p = "reduce" -> 4
      [] p = "done" -> 5

Started == pc \notin {"idle", "done"}

\* C18: a started run moves forward only (fetch, segment, summarize, reduce,
\* end): the stages it has entered are a prefix of that order, no step takes it
\* to an earlier stage, and it reaches its end, with a summary or aborted.
C18_ForwardOnlyAndEnds ==
    /\ [](stages = SubSeq(StageOrder, 1, Len(stages)))
    /\ [][Started => StageRank(pc') >= StageRank(pc)]_vars
    /\ (Started ~> RunOver)

C18_Witness ==
    /\ RunOver
    /\ stages = StageOrder
    /\ delivered # None
    /\ \E k \in 1..Len(log) : IsSleep(log[k])

\* What the orchestrator passes to summarize_chunk as its second argument.
PassedModel == IF IsApp THEN ModelName ELSE configure_api_main(ModelName)

\* C19: with the API key configured, every attempt of summarize_chunk, the
\* first and the retries, runs with the model reference the orchestrator passed,
\* and every call of the generation service it makes goes to the model of that
\* reference.
C19_SameModelEveryAttempt ==
    /\ (api_key /\ pc = "attempt") => model_arg = PassedModel
    /\ \A k \in 1..Len(log) :
          (log[k].by = "summarize_chunk" /\ log[k].op = "generate")
              => log[k].ref = MODEL_CHOICE

\* C20: in app.py, whenever st.session_state holds final_summary it holds
\* video_id and full_transcript too, all three stored by one run, the
\* transcript being the one of that video; while a run is under way, and after
\* a run that started (a non-empty URL) and delivered nothing, it holds no
\* final_summary.
C20_SessionTripleFromOneRun ==
    IsApp =>
        /\ DOMAIN written = DOMAIN session
        /\ "final_summary" \in DOMAIN session =>
              /\ "video_id" \in DOMAIN session
              /\ "full_transcript" \in DOMAIN session
              /\ written["video_id"] = written["final_summary"]
              /\ written["full_transcript"] = written["final_summary"]
              /\ session["full_transcript"] = TextRef(session["video_id"])
              /\ Truthy(session["final_summary"])
        /\ Started => "final_summary" \notin DOMAIN session
        /\ (RunOver /\ url.text # "" /\ delivered = None)
              => "final_summary" \notin DOMAIN session

C20_Witness ==
    /\ IsApp /\ runs = 2 /\ RunOver
    /\ url.text # "" /\ delivered = None
    /\ \E key \in DOMAIN reduce_cache : Truthy(reduce_cache[key])
    /\ "final_summary" \notin DOMAIN session

\* The attempts numbered 1 made for chunk k: the times the orchestrator's call
\* of summarize_chunk for that chunk began to run.
FirstAttempts(k) ==
    SelectSeq(log, LAMBDA e : IsAttempt(e) /\ e.chunk = k /\ e.attempt = 1)

\* C21: the orchestrator hands each chunk to summarize_chunk once (one result a
\* chunk, at most one first attempt a chunk, none for a chunk not yet reached)
\* and calls create_final_summary at most once, so the run's calls of the
\* generation service number at most 3 for each chunk handed over and at most
\* 3n + 1 for n chunks.
C21_NoOrchestratorRetry ==
    /\ Len(results) <= Len(text_chunks)
    /\ Len(results) = idx - 1
    /\ (RunOver /\ Contains(stages, "summarize")) => Len(results) = Len(text_chunks)
    /\ \A k \in 1..Len(text_chunks) :
          /\ Len(FirstAttempts(k)) <= 1
          /\ k <= Len(results) =>
                Len(FirstAttempts(k)) = (IF results[k].cached THEN 0 ELSE 1)
          /\ Len(SelectSeq(GenerationCalls, LAMBDA e : e.chunk = k)) <= 3
    /\ Len(SelectSeq(log, LAMBDA e : e.by = "create_final_summary")) <= 1
    /\ Len(GenerationCalls) <= 3 * Len(text_chunks) + 1

C21_Witness ==
    /\ RunOver
    /\ Len(text_chunks) = 3
    /\ Len(GenerationCalls) = 10
    /\ reducer.called /\ reducer.service_calls = 1

\* --------------------------------------------------- SpecChunk: chunk_text
RECURSIVE TextsOfLen(_)
TextsOfLen(n) ==
    IF n = 0 THEN {<<>>}
    ELSE {Append(t, c) : t \in TextsOfLen(n - 1), c \in Alphabet}

Texts == UNION {TextsOfLen(n) : n \in 0..MaxLen}

\* Texts longer than the default chunk_size: three regions of one character
\* each, cut where the default windows begin and end, and a text of one
\* character throughout.
LongTexts ==
    {[p \in 1..9000 |-> IF p <= 7600 THEN c[1] ELSE IF p <= 8000 THEN c[2] ELSE c[3]] :
        c \in {<<"a", "b", "a">>, <<"a", "a", "a">>, <<"b", "a", "b">>}}

\* Arguments of a call: any size and overlap for a text the guard returns on;
\* chunk_size > overlap >= 0 otherwise (the loop does not advance without it);
\* the long texts are cut with the defaults, as the orchestrators call it.
InitChunk ==
    /\ \/ /\ ct_text \in Texts \cup {None}
          /\ ct_size \in 0..MaxSize
          /\ ct_overlap \in 0..MaxSize
          /\ chunk_guard(ct_text) \/ ct_size > ct_overlap
       \/ /\ ct_text \in LongTexts
          /\ ct_size = DEFAULT_CHUNK_SIZE
          /\ ct_overlap = DEFAULT_OVERLAP
    /\ ct_pc = "call"
    /\ ct_chunks = <<>>
    /\ program = "main"
    /\ api_key = TRUE
    /\ PipelineIdle

CallChunkText ==
    /\ ct_pc = "call"
    /\ ct_chunks' = chunk_text(ct_text, ct_size, ct_overlap)
    /\ ct_pc' = "returned"
    /\ UNCHANGED <<ct_text, ct_size, ct_overlap>>
    /\ UNCHANGED pvars

NextChunk == CallChunkText

SpecChunk == InitChunk /\ [][NextChunk]_vars

\* ------------------------------------------------- chunk_text: properties
Returned == ct_pc = "returned"

\* A text that is absent, empty or made of whitespace only.
IsBlank(text) == text = None \/ \A i \in 1..Len(text) : text[i] \in Whitespace

ValidArgs == ~IsBlank(ct_text) /\ ct_size > ct_overlap /\ ct_overlap >= 0

Suffix(c, k) == SubSeq(c, Len(c) - k + 1, Len(c))

Prefix(c, k) == SubSeq(c, 1, k)

\* The first chunk followed by each later chunk without its leading overlap characters.
RECURSIVE Reassemble(_, _, _)
Reassemble(chunks, overlap, i) ==
    IF i > Len(chunks) THEN <<>>
    ELSE (IF i = 1 THEN chunks[i] ELSE SliceFrom(chunks[i], overlap))
         \o Reassemble(chunks, overlap, i + 1)

\* The offsets at which the returned chunks were cut.
ct_starts == chunk_text_at(ct_text, ct_size, ct_overlap).starts

\* C4: a non-blank text no longer than chunk_size (chunk_size > overlap >= 0)
\* yields exactly one chunk, the text itself.
C4_ShortTextOneChunk ==
    (Returned /\ ValidArgs /\ Len(ct_text) <= ct_size) => ct_chunks = <<ct_text>>

\* C5: for a non-blank text and chunk_size > overlap >= 0 every character position
\* lies in some chunk, and the first chunk followed by each later chunk without
\* its leading overlap characters is the text.
C5_Coverage ==
    (Returned /\ ValidArgs) =>
        /\ Len(ct_starts) = Len(ct_chunks)
        /\ \A i \in 1..Len(ct_chunks) :
              ct_chunks[i] = Slice(ct_text, ct_starts[i], ct_starts[i] + Len(ct_chunks[i]))
        /\ \A p \in 0..(Len(ct_text) - 1) :
              \E i \in 1..Len(ct_chunks) :
                  ct_starts[i] <= p /\ p < ct_starts[i] + Len(ct_chunks[i])
        /\ Reassemble(ct_chunks, ct_overlap, 1) = ct_text

C5_Witness ==
    Returned /\ ValidArgs /\ ct_overlap >= 1 /\ Len(ct_chunks) >= 3

\* C6: chunk_text returns the empty list for a text that is None, empty or
\* whitespace only, whatever chunk_size and overlap are.
C6_BlankGivesNoChunks ==
    (Returned /\ IsBlank(ct_text)) => ct_chunks = <<>>

C6_Witness ==
    Returned /\ ct_text = <<" ", " ">> /\ ct_size = 2 /\ ct_overlap = 1

\* C7: for consecutive chunks i and i+1 other than the final pair, both at least
\* overlap long, the last overlap characters of chunk i are the first overlap
\* characters of chunk i+1.
C7_OverlapShared ==
    (Returned /\ ValidArgs) =>
        \A i \in 1..(Len(ct_chunks) - 2) :
            (Len(ct_chunks[i]) >= ct_overlap /\ Len(ct_chunks[i + 1]) >= ct_overlap)
                => Suffix(ct_chunks[i], ct_overlap) = Prefix(ct_chunks[i + 1], ct_overlap)

C7_Witness ==
    /\ Returned /\ ValidArgs /\ ct_overlap >= 1 /\ Len(ct_chunks) >= 3
    /\ ct_chunks[1] # ct_chunks[2]
    /\ Len(ct_chunks[1]) >= ct_overlap /\ Len(ct_chunks[2]) >= ct_overlap

\* C13: a non-blank text of 9000 characters cut with chunk_size 8000 and overlap
\* 400 gives exactly two chunks: positions [0, 8000) and positions [7600, 9000).
C13_NineThousandTwoChunks ==
    (Returned /\ ~IsBlank(ct_text) /\ Len(ct_text) = 9000
              /\ ct_size = 8000 /\ ct_overlap = 400) =>
        /\ Len(ct_chunks) = 2
        /\ ct_starts = <<0, 7600>>
        /\ ct_chunks[1] = Slice(ct_text, 0, 8000)
        /\ ct_chunks[2] = Slice(ct_text, 7600, 9000)
        /\ Len(ct_chunks[2]) = 1400

C13_Witness ==
    /\ Returned /\ Len(ct_text) = 9000 /\ ct_size = 8000 /\ ct_overlap = 400
    /\ ct_text[7600] = "a" /\ ct_text[7601] = "b" /\ ct_text[8001] = "a"
    /\ Len(ct_chunks) = 2

\* C14: for a non-blank text and chunk_size > overlap >= 0 every chunk after
\* the first holds a character position that the chunk before it does not hold.
C14_LaterChunkAddsPosition ==
    (Returned /\ ValidArgs) =>
        \A i \in 2..Len(ct_chunks) :
            \E p \in ct_starts[i]..(ct_starts[i] + Len(ct_chunks[i]) - 1) :
                ~(ct_starts[i - 1] <= p /\ p < ct_starts[i - 1] + Len(ct_chunks[i - 1]))

\* C22: for every text (blank ones included) and chunk_size > overlap >= 0,
\* every chunk chunk_text returns is non-empty, at most chunk_size long and the
\* substring of the text at its offset, and the offsets increase strictly.
C22_ChunksAreBoundedSubstrings ==
    (Returned /\ ct_text # None /\ ct_size > ct_overlap /\ ct_overlap >= 0) =>
        /\ Len(ct_starts) = Len(ct_chunks)
        /\ \A i \in 1..Len(ct_chunks) :
              /\ ct_chunks[i] # <<>>
              /\ Len(ct_chunks[i]) <= ct_size
              /\ ct_starts[i] >= 0
              /\ ct_starts[i] + Len(ct_chunks[i]) <= Len(ct_text)
              /\ \A p \in 1..Len(ct_chunks[i]) :
                    ct_chunks[i][p] = ct_text[ct_starts[i] + p]
        /\ \A i \in 1..(Len(ct_chunks) - 1) : ct_starts[i] < ct_starts[i + 1]

C22_Witness ==
    /\ Returned /\ ct_size > ct_overlap /\ ct_overlap >= 1
    /\ Len(ct_chunks) >= 3
    /\ Len(ct_chunks[1]) = ct_size
    /\ Len(ct_chunks[Len(ct_chunks)]) < ct_size
    /\ \E p \in 1..Len(ct_text) : ct_text[p] = " "

====
